---- MODULE Spec2Model ----
(***************************************************************************)
(* A model of src/transaction.js (bitcoinjs-lib): the Transaction object,  *)
(* its codec (serialize / deserialize), the signature-hash engine          *)
(* (hashTransactionForSignature), clone, and the signing operations.       *)
(*                                                                         *)
(* Representation.                                                         *)
(*  - A byte array is a sequence of integers 0..255.                       *)
(*  - A hex string is the sequence of its hex digits (0..15), two per byte.*)
(*  - A Script object is represented by its buffer (Script.clone is a deep *)
(*    copy, so a Script is a value).                                       *)
(*  - The sequence field of an input is a REFERENCE to a byte array: the   *)
(*    code passes that array around without copying it (lines 72, 407,     *)
(*    417), so the arrays live in `heap` and an input holds an address     *)
(*    1..Len(heap).  The JavaScript number 0 that line 190 stores in the   *)
(*    field is the value 0, which is no address.                           *)
(*  - undefined and NaN (reads past the end of a buffer, line 254/258) are *)
(*    the single value NaN: every use the code makes of undefined coerces  *)
(*    it to NaN or to false, exactly as NaN.                               *)
(*  - SHA256(SHA256(b)) is collision free: a digest is represented by the  *)
(*    buffer that was hashed.                                              *)
(***************************************************************************)
EXTENDS Integers, Sequences, FiniteSets, TLC

VARIABLES
    tx,     \* the Transaction object under construction / use
    heap,   \* the byte arrays the sequence fields refer to
    buf,    \* the byte array handed to Transaction.deserialize
    last,   \* the last operation performed and what it returned
    calls   \* the number of mutating calls made on tx so far

vars == <<tx, heap, buf, last, calls>>

----------------------------------------------------------------------------
(* JavaScript numbers *)

NaN == -1

IsNum(n) == n # NaN

NumAdd(a, b) == IF a = NaN \/ b = NaN THEN NaN ELSE a + b

NumSub(a, b) == IF a = NaN \/ b = NaN THEN NaN ELSE a - b

NumMul(a, b) == IF a = NaN \/ b = NaN THEN NaN ELSE a * b

\* if (x): 0, NaN and undefined are falsy
Truthy(n) == n # NaN /\ n # 0

\* a & b on non-negative integers
RECURSIVE BitAnd(_, _)
BitAnd(a, b) ==
    IF a = 0 \/ b = 0 THEN 0
    ELSE (IF a % 2 = 1 /\ b % 2 = 1 THEN 1 ELSE 0) + 2 * BitAnd(a \div 2, b \div 2)

----------------------------------------------------------------------------
(* Arrays *)

Reverse(s) == [i \in 1..Len(s) |-> s[Len(s) + 1 - i]]

\* Array.prototype.slice(start, end) with 0-based bounds; NaN counts as 0
Slice(s, start, end) ==
    LET a == IF start = NaN THEN 0 ELSE start
        b == IF end = NaN THEN 0 ELSE IF end > Len(s) THEN Len(s) ELSE end
    IN  IF a >= b THEN <<>> ELSE [i \in 1..(b - a) |-> s[a + i]]

\* buffer[i] with a 0-based index; undefined outside the array
ByteAt(buffer, i) ==
    IF i # NaN /\ i >= 0 /\ i < Len(buffer) THEN buffer[i + 1] ELSE NaN

----------------------------------------------------------------------------
(* convert.js *)

\* convert.numToBytes(num, bytes): little-endian, fixed width
RECURSIVE numToBytes(_, _)
numToBytes(num, bytes) ==
    IF bytes = 0 THEN <<>>
    ELSE IF num = NaN THEN <<NaN>> \o numToBytes(NaN, bytes - 1)
    ELSE <<num % 256>> \o numToBytes(num \div 256, bytes - 1)

\* convert.bytesToNum(bytes): little-endian
RECURSIVE bytesToNum(_)
bytesToNum(bytes) ==
    IF bytes = <<>> THEN 0 ELSE bytes[1] + 256 * bytesToNum(Tail(bytes))

\* convert.numToVarInt(num): CompactSize
numToVarInt(num) ==
    IF num < 253 THEN <<num>>
    ELSE IF num < 65536 THEN <<253>> \o numToBytes(num, 2)
    ELSE IF num \div 65536 < 65536 THEN <<254>> \o numToBytes(num, 4)
    ELSE <<255>> \o numToBytes(num, 8)

\* convert.hexToBytes(hex): two digits per byte, high digit first
hexToBytes(hex) ==
    [i \in 1..(Len(hex) \div 2) |-> 16 * hex[2 * i - 1] + hex[2 * i]]

\* convert.bytesToHex(bytes)
bytesToHex(bytes) ==
    [i \in 1..(2 * Len(bytes)) |->
        IF i % 2 = 1 THEN bytes[(i + 1) \div 2] \div 16 ELSE bytes[i \div 2] % 16]

\* SHA256(SHA256(bytesToWordArray(buffer))) as bytes; reversed by getHash
DoubleSHA256(buffer, reversed) == [preimage |-> buffer, reversed |-> reversed]

----------------------------------------------------------------------------
(* Transaction objects *)

\* this.hash of a Transaction that has none; doc.hash of a doc that has none
NoHash == [absent |-> TRUE]

NoTx == [absent |-> TRUE]

\* the bytes txin.sequence contributes to buffer.concat(txin.sequence):
\* the array it refers to, or the single element it is when it is no array
\* (the number 0 of line 190, or undefined)
SequenceBytes(h, sequence) ==
    IF sequence = 0 THEN <<0>>
    ELSE IF sequence = NaN THEN <<NaN>>
    ELSE h[sequence]

RECURSIVE serializeIns(_, _)
serializeIns(h, ins) ==
    IF ins = <<>> THEN <<>>
    ELSE LET txin == ins[1]
         IN  Reverse(hexToBytes(txin.outpoint.hash))
             \o numToBytes(txin.outpoint.index, 4)
             \o numToVarInt(Len(txin.script))
             \o txin.script
             \o SequenceBytes(h, txin.sequence)
             \o serializeIns(h, Tail(ins))

RECURSIVE serializeOuts(_)
serializeOuts(outs) ==
    IF outs = <<>> THEN <<>>
    ELSE LET txout == outs[1]
         IN  numToBytes(txout.value, 8)
             \o numToVarInt(Len(txout.script))
             \o txout.script
             \o serializeOuts(Tail(outs))

\* Transaction.prototype.serialize
serialize(h, t) ==
    numToBytes(t.version, 4)
    \o numToVarInt(Len(t.ins))
    \o serializeIns(h, t.ins)
    \o numToVarInt(Len(t.outs))
    \o serializeOuts(t.outs)
    \o numToBytes(t.locktime, 4)

\* Transaction.prototype.getHash
getHash(h, t) == DoubleSHA256(serialize(h, t), TRUE)

----------------------------------------------------------------------------
(* script.js, eckey.js, ecdsa.js, util.js, address.js *)

\* new ECKey(key).getPub().export('bytes')
ECPub(key) == <<4, key>>

\* util.sha256ripe160(pub): 20 bytes
sha256ripe160(pub) == [i \in 1..20 |-> (pub[2] + i) % 256]

\* Script.createOutputScript(address): pay to public-key hash
createOutputScript(hash160) == <<118, 169, 20>> \o hash160 \o <<136, 172>>

\* key.sign(hash): a signature is a function of the key and the digest
ECDSASign(key, digest) ==
    LET p == digest.preimage
    IN  <<48, key, Len(p) % 256, p[1], p[(Len(p) + 1) \div 2], p[Len(p) - 3]>>

\* Script.createInputScript(sig, pub): push sig, push pub
createInputScript(sig, pub) == <<Len(sig)>> \o sig \o <<Len(pub)>> \o pub

RECURSIVE PushAll(_)
PushAll(sigs) ==
    IF sigs = <<>> THEN <<>>
    ELSE <<Len(sigs[1])>> \o sigs[1] \o PushAll(Tail(sigs))

\* Script.createMultiSigInputScript(sigs, script): OP_0, the sigs, the script
createMultiSigInputScript(sigs, script) ==
    <<0>> \o PushAll(sigs) \o <<Len(script)>> \o script

----------------------------------------------------------------------------
(* Constructors *)

SIGHASH_ALL == 1

SIGHASH_NONE == 2

SIGHASH_SINGLE == 3

SIGHASH_ANYONECANPAY == 80

\* new TransactionIn(data), data an object with outpoint, script and sequence:
\* TransactionIn has no defaultSequence, so a falsy data.sequence gives undefined
TransactionIn(data) ==
    [outpoint |-> data.outpoint,
     script   |-> data.script,
     sequence |-> IF Truthy(data.sequence) THEN data.sequence ELSE NaN]

\* TransactionIn.prototype.clone: a new outpoint object, a copy of the script,
\* and the SAME sequence array
TransactionInClone(txin) ==
    TransactionIn([outpoint |-> [hash  |-> txin.outpoint.hash,
                                 index |-> txin.outpoint.index],
                   script   |-> txin.script,
                   sequence |-> txin.sequence])

\* new TransactionOut(data), data.script a Script or a byte array and
\* data.value a number
TransactionOut(data) == [value |-> data.value, script |-> data.script]

\* TransactionOut.prototype.clone
TransactionOutClone(txout) ==
    TransactionOut([script |-> txout.script, value |-> txout.value])

\* the argument of new Transaction() when there is none
NoDoc == [absent |-> TRUE]

\* doc.ins.forEach(... new TransactionIn(input)): in a doc the sequence of an
\* input is a byte array of the caller's; it enters the heap at address base + i
RECURSIVE InsOfDoc(_, _)
InsOfDoc(docIns, base) ==
    IF docIns = <<>> THEN <<>>
    ELSE <<TransactionIn([outpoint |-> docIns[1].outpoint,
                          script   |-> docIns[1].script,
                          sequence |-> base + 1])>>
         \o InsOfDoc(Tail(docIns), base + 1)

\* lines 12-16: the object before the doc is looked at; its defaultSequence
\* array is the last one of heap h1
EmptyTransaction(h1) ==
    [version         |-> 1,
     locktime        |-> 0,
     ins             |-> <<>>,
     outs            |-> <<>>,
     defaultSequence |-> Len(h1),
     hash            |-> NoHash]

\* lines 23-36: the fields taken from the doc
CopyDoc(t0, doc) ==
    [t0 EXCEPT
       !.hash     = doc.hash,
       !.version  = IF Truthy(doc.version) THEN doc.version ELSE 1,
       !.locktime = IF Truthy(doc.locktime) THEN doc.locktime ELSE 0,
       !.ins      = InsOfDoc(doc.ins, t0.defaultSequence),
       !.outs     = [i \in 1..Len(doc.outs) |-> TransactionOut(doc.outs[i])]]

\* line 38 left out
CacheHash_Skipped(h2, t1) == [tx |-> t1, heap |-> h2]

\* line 38: this.hash = this.hash || this.getHash()
CacheHash(h2, t1) ==
    [tx   |-> [t1 EXCEPT !.hash = IF t1.hash # NoHash THEN t1.hash ELSE getHash(h2, t1)],
     heap |-> h2]

\* the heap with the sequence arrays of the doc's inputs after those of h1
WithDocArrays(h1, doc) == h1 \o [i \in 1..Len(doc.ins) |-> doc.ins[i].sequence]

\* new Transaction(doc) once the defaultSequence array is in the heap
ConstructIn(h1, doc) ==
    IF doc = NoDoc THEN [tx |-> EmptyTransaction(h1), heap |-> h1]
    ELSE CacheHash(WithDocArrays(h1, doc), CopyDoc(EmptyTransaction(h1), doc))

\* new Transaction(doc), doc absent or an object: the new object and the heap
\* with its defaultSequence array and the doc's sequence arrays in it
NewTransaction(h, doc) == ConstructIn(Append(h, <<255, 255, 255, 255>>), doc)

\* Transaction.prototype.addInput(txin), txin a TransactionIn
addInputObject(t, txin) == [t EXCEPT !.ins = Append(@, txin)]

\* Transaction.prototype.addInput(hash, outIndex) and addInput("hash:index")
addInputOutpoint(t, hash, outIndex) ==
    [t EXCEPT !.ins = Append(@,
        TransactionIn([outpoint |-> [hash |-> hash, index |-> outIndex],
                       script   |-> <<>>,
                       sequence |-> t.defaultSequence]))]

\* Transaction.prototype.addOutput(txout), txout a TransactionOut
addOutputObject(t, txout) == [t EXCEPT !.outs = Append(@, txout)]

\* Transaction.prototype.addOutput(address, value) and addOutput("address:value")
addOutputAddress(t, hash160, value) ==
    [t EXCEPT !.outs = Append(@,
        TransactionOut([value |-> value, script |-> createOutputScript(hash160)]))]

\* lines 228-237: the fields of t copied into the new object n
CloneInto(n, t) ==
    [tx   |-> [n.tx EXCEPT
                 !.version  = t.version,
                 !.locktime = t.locktime,
                 !.ins      = [i \in 1..Len(t.ins) |-> TransactionInClone(t.ins[i])],
                 !.outs     = [i \in 1..Len(t.outs) |-> TransactionOutClone(t.outs[i])]],
     heap |-> n.heap]

\* Transaction.prototype.clone: the copy and the heap with the copy's
\* defaultSequence array in it
clone(h, t) == CloneInto(NewTransaction(h, NoDoc), t)

----------------------------------------------------------------------------
(* Signature hash and signing *)

\* lines 177-181: every script blanked, then the connected script set
BlankScripts(ins, connectedScript, inIndex) ==
    [i \in 1..Len(ins) |->
        [ins[i] EXCEPT !.script = IF i = inIndex + 1 THEN connectedScript ELSE <<>>]]

\* lines 188-192: the sequence of every other input becomes the number 0
ZeroOtherSequences(ins, inIndex) ==
    [i \in 1..Len(ins) |->
        IF i # inIndex + 1 THEN [ins[i] EXCEPT !.sequence = 0] ELSE ins[i]]

\* lines 184-196: SIGHASH_NONE on the inputs; SIGHASH_SINGLE does nothing
HashTypeIns(ins, inIndex, hashType) ==
    IF BitAnd(hashType, 31) = SIGHASH_NONE THEN ZeroOtherSequences(ins, inIndex)
    ELSE ins

\* line 185: SIGHASH_NONE on the outputs
HashTypeOuts(outs, hashType) ==
    IF BitAnd(hashType, 31) = SIGHASH_NONE THEN <<>> ELSE outs

\* lines 199-201: only the input at inIndex is kept
AnyoneCanPayIns(ins, inIndex, hashType) ==
    IF BitAnd(hashType, SIGHASH_ANYONECANPAY) # 0 THEN <<ins[inIndex + 1]>> ELSE ins

\* lines 177-201 on the copy c
ModifyCopy(c, connectedScript, inIndex, hashType) ==
    [tx   |-> [c.tx EXCEPT
                 !.ins  = AnyoneCanPayIns(
                             HashTypeIns(BlankScripts(@, connectedScript, inIndex),
                                         inIndex, hashType),
                             inIndex, hashType),
                 !.outs = HashTypeOuts(@, hashType)],
     heap |-> c.heap]

\* lines 167-201: the modified copy that hashTransactionForSignature serializes
SignatureHashCopy(h, t, connectedScript, inIndex, hashType) ==
    ModifyCopy(clone(h, t), connectedScript, inIndex, hashType)

\* lines 203-205 on the modified copy
PreimageOf(txTmp, hashType) ==
    serialize(txTmp.heap, txTmp.tx) \o numToBytes(hashType, 4)

\* lines 167-205: the bytes that are hashed
SignatureHashPreimage(h, t, connectedScript, inIndex, hashType) ==
    PreimageOf(SignatureHashCopy(h, t, connectedScript, inIndex, hashType), hashType)

\* Transaction.prototype.hashTransactionForSignature: it always returns
hashTransactionForSignature(h, t, connectedScript, inIndex, hashType) ==
    [outcome |-> "returned",
     digest  |-> DoubleSHA256(
                    SignatureHashPreimage(h, t, connectedScript, inIndex, hashType),
                    FALSE)]

\* lines 313-318 once type and the public key are known
signWith(h, t, index, key, ty, pub) ==
    [t EXCEPT !.ins[index + 1].script =
        createInputScript(
            ECDSASign(key,
                hashTransactionForSignature(
                    h, t, createOutputScript(sha256ripe160(pub)), index, ty).digest)
            \o <<ty>>,
            pub)]

\* sign with the changes of lines 177-201 made to the transaction itself
sign_WithoutClone(h, t, index, key, type) ==
    signWith(h,
             ModifyCopy([tx |-> t, heap |-> h], <<>>, index,
                        IF Truthy(type) THEN type ELSE SIGHASH_ALL).tx,
             index, key, IF Truthy(type) THEN type ELSE SIGHASH_ALL, ECPub(key))

\* Transaction.prototype.sign(index, key, type)
sign(h, t, index, key, type) ==
    signWith(h, t, index, key, IF Truthy(type) THEN type ELSE SIGHASH_ALL, ECPub(key))

\* hmap[outpoint]: the last record of outputs whose output is this outpoint
RECURSIVE HistItems(_, _)
HistItems(outputs, outpoint) ==
    IF outputs = <<>> THEN <<>>
    ELSE LET o == outputs[Len(outputs)]
         IN  IF o.output = outpoint THEN <<o>>
             ELSE HistItems(SubSeq(outputs, 1, Len(outputs) - 1), outpoint)

\* thisInputAddrdata: the keys whose address is that of the record, if any
KeysFor(keys, hist) ==
    IF hist = <<>> THEN <<>>
    ELSE SelectSeq(keys, LAMBDA k : sha256ripe160(ECPub(k)) = hist[1].address)

\* lines 342-350: input i signed with the first such key, with no type given
signIfMine(h, t, i, mine) ==
    IF mine = <<>> THEN t ELSE sign(h, t, i, mine[1], 0)

\* lines 338-351: the loop of signWithKeys from input i (0-based) on
RECURSIVE signWithKeysFrom(_, _, _, _, _)
signWithKeysFrom(h, t, keys, outputs, i) ==
    IF i >= Len(t.ins) THEN t
    ELSE signWithKeysFrom(
            h,
            signIfMine(h, t, i,
                KeysFor(keys, HistItems(outputs, t.ins[i + 1].outpoint))),
            keys, outputs, i + 1)

\* Transaction.prototype.signWithKeys(keys, outputs, type)
signWithKeys(h, t, keys, outputs) == signWithKeysFrom(h, t, keys, outputs, 0)

\* Transaction.prototype.applyMultisigs(index, script, sigs)
applyMultisigs(t, index, script, sigs) ==
    [t EXCEPT !.ins[index + 1].script = createMultiSigInputScript(sigs, script)]

----------------------------------------------------------------------------
(* Transaction.deserialize *)

\* the value of readAsInt(bytes) at read position pos, bytes a number
RECURSIVE readAsIntValue(_, _, _)
readAsIntValue(buffer, pos, bytes) ==
    IF bytes = 0 THEN 0
    ELSE NumAdd(ByteAt(buffer, NumSub(NumAdd(pos, 1), 1)),
                NumMul(readAsIntValue(buffer, NumAdd(pos, 1), bytes - 1), 256))

\* readAsInt(bytes) at read position pos: the value, the new position (one
\* pos++ for each byte), and whether the recursion never ends (bytes is NaN:
\* RangeError, stack overflow)
readAsInt(buffer, pos, bytes) ==
    IF bytes = NaN THEN [val |-> NaN, pos |-> pos, thrown |-> TRUE]
    ELSE [val    |-> readAsIntValue(buffer, pos, bytes),
          pos    |-> NumAdd(pos, bytes),
          thrown |-> FALSE]

\* readVarInt() at read position pos
readVarInt(buffer, pos) ==
    LET pos1  == NumAdd(pos, 1)
        first == ByteAt(buffer, NumSub(pos1, 1))
    IN  IF first # NaN /\ first < 253
        THEN [val |-> first, pos |-> pos1, thrown |-> FALSE]
        ELSE readAsInt(buffer, pos1, NumSub(first, 251))

\* readBytes(bytes) at read position pos
readBytes(buffer, pos, bytes) ==
    LET pos1 == NumAdd(pos, bytes)
    IN  [val |-> Slice(buffer, NumSub(pos1, bytes), pos1), pos |-> pos1, thrown |-> FALSE]

\* readBytes(size) for the size readVarInt gave
readSized(buffer, size) ==
    IF size.thrown THEN [val |-> <<>>, pos |-> size.pos, thrown |-> TRUE]
    ELSE readBytes(buffer, size.pos, size.val)

\* readVarString() at read position pos
readVarString(buffer, pos) == readSized(buffer, readVarInt(buffer, pos))

\* i < n of the for loops: false when n is NaN
LoopRuns(i, n) == n # NaN /\ i < n

\* an object literal of lines 280-287 or 292-295 being evaluated, field by
\* field: the read position, whether a read threw, and the fields read so far
FieldsAt(pos) ==
    [pos |-> pos, thrown |-> FALSE,
     hash |-> <<>>, index |-> 0, value |-> 0, script |-> <<>>, sequence |-> <<>>]

\* line 282: hash: convert.bytesToHex(readBytes(32).reverse())
ReadHash(buffer, f) ==
    LET x == readBytes(buffer, f.pos, 32)
    IN  [f EXCEPT !.hash = bytesToHex(Reverse(x.val)), !.pos = x.pos]

\* line 283: index: readAsInt(4)
ReadIndex(buffer, f) ==
    LET x == readAsInt(buffer, f.pos, 4)
    IN  [f EXCEPT !.index = x.val, !.pos = x.pos]

\* lines 285, 294: script: new Script(readVarString())
ReadScript(buffer, f) ==
    LET x == readVarString(buffer, f.pos)
    IN  [f EXCEPT !.script = x.val, !.pos = x.pos, !.thrown = x.thrown]

\* line 286: sequence: readBytes(4)
ReadSequence(buffer, f) ==
    LET x == readBytes(buffer, f.pos, 4)
    IN  [f EXCEPT !.sequence = x.val, !.pos = x.pos]

\* line 293: value: convert.bytesToNum(readBytes(8))
ReadValue(buffer, f) ==
    LET x == readBytes(buffer, f.pos, 8)
    IN  [f EXCEPT !.value = bytesToNum(x.val), !.pos = x.pos]

\* obj.ins.push({...}): the list r.val with the input read at r.pos
PushInput(r, f) ==
    [val    |-> Append(r.val, [outpoint |-> [hash |-> f.hash, index |-> f.index],
                               script   |-> f.script,
                               sequence |-> f.sequence]),
     pos    |-> f.pos,
     thrown |-> f.thrown]

\* obj.outs.push({...}): the list r.val with the output read at r.pos
PushOutput(r, f) ==
    [val    |-> Append(r.val, [value |-> f.value, script |-> f.script]),
     pos    |-> f.pos,
     thrown |-> f.thrown]

\* lines 279-288: the loop from its i-th round on; r holds the inputs read so
\* far, the read position, and whether a read threw
RECURSIVE readIns(_, _, _, _)
readIns(buffer, r, i, ins) ==
    IF r.thrown \/ ~LoopRuns(i, ins) THEN r
    ELSE readIns(buffer,
            PushInput(r,
                ReadSequence(buffer,
                    ReadScript(buffer,
                        ReadIndex(buffer,
                            ReadHash(buffer, FieldsAt(r.pos)))))),
            i + 1, ins)

\* lines 291-296: the loop from its i-th round on
RECURSIVE readOuts(_, _, _, _)
readOuts(buffer, r, i, outs) ==
    IF r.thrown \/ ~LoopRuns(i, outs) THEN r
    ELSE readOuts(buffer,
            PushOutput(r, ReadScript(buffer, ReadValue(buffer, FieldsAt(r.pos)))),
            i + 1, outs)

\* the list that starts empty where the count n was read
ListAfter(n) == [val |-> <<>>, pos |-> n.pos, thrown |-> n.thrown]

\* line 275: obj.version = readAsInt(4), the first read
ReadVersion(buffer) ==
    LET x == readAsInt(buffer, 0, 4)
    IN  [pos |-> x.pos, thrown |-> FALSE,
         obj |-> [hash |-> NoHash, version |-> x.val, locktime |-> 0,
                  ins |-> <<>>, outs |-> <<>>]]

\* lines 276-288: var ins = readVarInt() and the loop
ReadInputList(buffer, n) == readIns(buffer, ListAfter(n), 0, n.val)

StoreInputs(d, r) ==
    [d EXCEPT !.obj.ins = r.val, !.pos = r.pos, !.thrown = r.thrown]

ReadInputs(buffer, d) ==
    StoreInputs(d, ReadInputList(buffer, readVarInt(buffer, d.pos)))

\* lines 289-296: var outs = readVarInt() and the loop
ReadOutputList(buffer, n) == readOuts(buffer, ListAfter(n), 0, n.val)

StoreOutputs(d, r) ==
    [d EXCEPT !.obj.outs = r.val, !.pos = r.pos, !.thrown = r.thrown]

ReadOutputs(buffer, d) ==
    IF d.thrown THEN d
    ELSE StoreOutputs(d, ReadOutputList(buffer, readVarInt(buffer, d.pos)))

\* line 298: obj.locktime = readAsInt(4)
ReadLocktime(buffer, d) ==
    IF d.thrown THEN d
    ELSE LET x == readAsInt(buffer, d.pos, 4)
         IN  [d EXCEPT !.obj.locktime = x.val, !.pos = x.pos]

\* lines 250-298: obj, the read position at the end, and whether a read threw
deserializeObj(buffer) ==
    ReadLocktime(buffer, ReadOutputs(buffer, ReadInputs(buffer, ReadVersion(buffer))))

\* line 300: new Transaction(obj) when no read threw
ConstructRead(h, d) ==
    IF d.thrown THEN [outcome |-> "RangeError", heap |-> h]
    ELSE [outcome |-> "returned", pos |-> d.pos] @@ NewTransaction(h, d.obj)

\* Transaction.deserialize(buffer): new Transaction(obj), or the RangeError
\* of a recursion that never ends; no other error is raised
deserialize(h, buffer) == ConstructRead(h, deserializeObj(buffer))

----------------------------------------------------------------------------
(* Bounds and the inputs the operations are given *)

MaxIns == 2

MaxOuts == 1

MaxCalls == 3

\* previous-transaction ids as hex: 00..0001 and ab00..00
Hash1 == [i \in 1..64 |-> IF i = 64 THEN 1 ELSE 0]

Hash2 == [i \in 1..64 |-> IF i = 1 THEN 10 ELSE IF i = 2 THEN 11 ELSE 0]

Versions == {0}

Locktimes == {1}

Keys == {7}

HashTypes == {SIGHASH_ALL, SIGHASH_NONE, SIGHASH_SINGLE, 65, 129}

SignTypes == {SIGHASH_NONE, 65}

\* the locking script of the output that key k may spend
LockingScript(k) == createOutputScript(sha256ripe160(ECPub(k)))

\* documents given to new Transaction(doc): none, one without a hash, and one
\* that carries the hash of its own content
DocPlain ==
    [hash     |-> NoHash,
     version  |-> 2,
     locktime |-> 0,
     ins      |-> <<[outpoint |-> [hash |-> Hash2, index |-> 1],
                     script   |-> <<>>,
                     sequence |-> <<254, 255, 255, 255>>]>>,
     outs     |-> <<[value |-> 513, script |-> LockingScript(7)]>>]

DocHashed ==
    LET d == [DocPlain EXCEPT !.locktime = 1]
    IN  [d EXCEPT !.hash = NewTransaction(<<>>, d).tx.hash]

Docs == {NoDoc, DocPlain, DocHashed}

\* what an object holds, with each sequence array in place of its address
InView(h, txin) ==
    [outpoint |-> txin.outpoint,
     script   |-> txin.script,
     sequence |-> SequenceBytes(h, txin.sequence)]

TxView(h, t) ==
    [version  |-> t.version,
     locktime |-> t.locktime,
     ins      |-> [i \in 1..Len(t.ins) |-> InView(h, t.ins[i])],
     outs     |-> t.outs]

----------------------------------------------------------------------------
(* The state machine of one Transaction object and its callers *)

\* what a caller sees of a call of deserialize: the outcome and, when it
\* returned, the transaction
Returned(r) ==
    [outcome |-> r.outcome,
     result  |-> IF r.outcome = "returned" THEN TxView(r.heap, r.tx) ELSE NoTx,
     hash    |-> IF r.outcome = "returned" THEN r.tx.hash ELSE NoHash]

\* c.tx.serialize() of a copy c
SerializeCopy(c) == serialize(c.heap, c.tx)

\* c.ins[i].script.buffer.push(0)
PushScriptByte(c, i) == [c EXCEPT !.tx.ins[i].script = Append(@, 0)]

\* c.ins[i].outpoint.index = 9
SetOutpointIndex(c, i) == [c EXCEPT !.tx.ins[i].outpoint.index = 9]

\* a call that changes the object
Mutating == calls < MaxCalls /\ calls' = calls + 1

\* a call that only reads it
Reading == calls' = calls

Init ==
    \E doc \in Docs :
            /\ tx = NewTransaction(<<>>, doc).tx
            /\ heap = NewTransaction(<<>>, doc).heap
            /\ buf = <<>>
            /\ last = [op |-> "new", doc |-> doc]
            /\ calls = 0

\* tx.addInput(hash, index)
AddInputOutpoint ==
    /\ Mutating
    /\ Len(tx.ins) < MaxIns
    /\ tx' = addInputOutpoint(tx, Hash1, 0)
    /\ last' = [op |-> "addInput"]
    /\ UNCHANGED <<heap, buf>>

\* tx.addInput(new TransactionIn({outpoint, script, sequence})), the sequence
\* a new array of the caller's
AddInputObject ==
    /\ Mutating
    /\ Len(tx.ins) < MaxIns
    /\ heap' = Append(heap, <<1, 0, 0, 0>>)
    /\ tx' = addInputObject(tx,
                TransactionIn([outpoint |-> [hash |-> Hash2, index |-> 256],
                               script   |-> <<>>,
                               sequence |-> Len(heap')]))
    /\ last' = [op |-> "addInput"]
    /\ UNCHANGED buf

\* tx.addOutput(address, value)
AddOutput ==
    /\ Mutating
    /\ Len(tx.outs) < MaxOuts
    /\ \E k \in Keys :
          tx' = addOutputAddress(tx, sha256ripe160(ECPub(k)), 258)
    /\ last' = [op |-> "addOutput"]
    /\ UNCHANGED <<heap, buf>>

\* tx.version = v
SetVersion ==
    /\ Mutating
    /\ \E v \in Versions : tx' = [tx EXCEPT !.version = v]
    /\ tx' # tx
    /\ last' = [op |-> "setVersion"]
    /\ UNCHANGED <<heap, buf>>

\* tx.locktime = l
SetLocktime ==
    /\ Mutating
    /\ \E l \in Locktimes : tx' = [tx EXCEPT !.locktime = l]
    /\ tx' # tx
    /\ last' = [op |-> "setLocktime"]
    /\ UNCHANGED <<heap, buf>>

\* tx.sign(index, key, type)
Sign ==
    /\ Mutating
    /\ \E index \in 0..(Len(tx.ins) - 1), key \in Keys, type \in SignTypes :
          /\ tx' = sign(heap, tx, index, key, type)
          /\ last' = [op |-> "sign", index |-> index, type |-> type]
    /\ UNCHANGED <<heap, buf>>

\* tx.signWithKeys(keys, outputs), outputs naming the outpoint Hash1:0
SignWithKeys ==
    /\ Mutating
    /\ tx.ins # <<>>
    /\ \E key \in Keys :
          tx' = signWithKeys(heap, tx, <<key>>,
                   <<[output  |-> [hash |-> Hash1, index |-> 0],
                      address |-> sha256ripe160(ECPub(key))]>>)
    /\ last' = [op |-> "signWithKeys"]
    /\ UNCHANGED <<heap, buf>>

\* tx.applyMultisigs(index, script, sigs)
ApplyMultisigs ==
    /\ Mutating
    /\ \E index \in 0..(Len(tx.ins) - 1) :
          tx' = applyMultisigs(tx, index, <<81, 174>>, <<<<48, 1>>>>)
    /\ last' = [op |-> "applyMultisigs"]
    /\ UNCHANGED <<heap, buf>>

\* c = tx.clone(); c.ins[i].sequence[0] = 0: a write into the array the
\* clone's input holds; the clone is dropped afterwards
CloneMutateSequence ==
    /\ Mutating
    /\ \E i \in 1..Len(tx.ins) :
          /\ clone(heap, tx).tx.ins[i].sequence \in 1..Len(heap)
          /\ heap' = [heap EXCEPT ![clone(heap, tx).tx.ins[i].sequence][1] = 0]
          /\ heap' # heap
          /\ last' = [op |-> "cloneMutate", field |-> "sequence", index |-> i - 1]
    /\ UNCHANGED <<tx, buf>>

\* c = tx.clone(); c.ins[i].script.buffer.push(0): a write into the clone's
\* script, a copy made by Script.clone
CloneMutateScript ==
    /\ Reading
    /\ \E i \in 1..Len(tx.ins) :
          last' = [op |-> "cloneMutate", field |-> "script", index |-> i - 1,
                   copy |-> SerializeCopy(
                               PushScriptByte(clone(heap, tx), i))]
    /\ UNCHANGED <<tx, heap, buf>>

\* c = tx.clone(); c.ins[i].outpoint.index = 9: a write into the clone's
\* outpoint, an object made by line 412
CloneMutateOutpoint ==
    /\ Reading
    /\ \E i \in 1..Len(tx.ins) :
          last' = [op |-> "cloneMutate", field |-> "outpoint", index |-> i - 1,
                   copy |-> SerializeCopy(
                               SetOutpointIndex(clone(heap, tx), i))]
    /\ UNCHANGED <<tx, heap, buf>>

\* tx.hashTransactionForSignature(connectedScript, inIndex, hashType)
HashTransactionForSignature ==
    /\ Reading
    /\ \E inIndex \in 0..(Len(tx.ins) - 1), key \in Keys, hashType \in HashTypes :
          last' = [op       |-> "hashTransactionForSignature",
                   inIndex  |-> inIndex,
                   hashType |-> hashType]
                  @@ hashTransactionForSignature(heap, tx, LockingScript(key),
                                                 inIndex, hashType)
    /\ UNCHANGED <<tx, heap, buf>>

\* Transaction.deserialize(tx.serialize())
RoundTrip ==
    /\ Reading
    /\ last' = [op |-> "roundTrip"] @@ Returned(deserialize(heap, serialize(heap, tx)))
    /\ UNCHANGED <<tx, heap, buf>>

Next ==
    \/ AddInputOutpoint
    \/ AddInputObject
    \/ AddOutput
    \/ SetVersion
    \/ SetLocktime
    \/ Sign
    \/ SignWithKeys
    \/ ApplyMultisigs
    \/ CloneMutateSequence
    \/ CloneMutateScript
    \/ CloneMutateOutpoint
    \/ HashTransactionForSignature
    \/ RoundTrip

Spec == Init /\ [][Next]_vars

----------------------------------------------------------------------------
(* Transaction.deserialize on the byte arrays a caller may hand it *)

\* serialize() of new Transaction(doc)
Encoding(doc) == SerializeCopy(NewTransaction(<<>>, doc))

\* version 1, no inputs, no outputs, locktime 0, and the same with version 0
EmptyDoc(version) ==
    [hash |-> NoHash, version |-> version, locktime |-> 0, ins |-> <<>>, outs |-> <<>>]

\* one input that spends output 1 of 00..0001, and no output
DocOneInput ==
    [hash     |-> NoHash,
     version  |-> 1,
     locktime |-> 0,
     ins      |-> <<[outpoint |-> [hash |-> Hash1, index |-> 1],
                     script   |-> <<>>,
                     sequence |-> <<254, 255, 255, 255>>]>>,
     outs     |-> <<>>]

\* every proper prefix of an encoding
Truncations(b) == {SubSeq(b, 1, n) : n \in 0..(Len(b) - 1)}

\* the encoding b with its input count, the one byte after the version,
\* written as the varint v
WithInputCount(b, v) == SubSeq(b, 1, 4) \o v \o SubSeq(b, 6, Len(b))

\* the input count 1 in its 1-byte form and in its 0xFD, 0xFE and 0xFF forms
CountForms ==
    {<<1>>, <<253, 1, 0>>, <<254, 1, 0, 0, 0>>, <<255, 1, 0, 0, 0, 0, 0, 0, 0>>}

Buffers ==
    {Encoding(DocPlain), Encoding(EmptyDoc(1)), Encoding(EmptyDoc(0)),
     Encoding(DocPlain) \o <<0>>}
    \cup Truncations(Encoding(DocPlain))
    \cup {WithInputCount(Encoding(DocOneInput), v) : v \in CountForms}

InitCodec ==
    /\ buf \in Buffers
    /\ tx = NoTx
    /\ heap = <<>>
    /\ last = [op |-> "none"]
    /\ calls = 0

\* what the caller of deserialize then holds
Held(r) == IF r.outcome = "returned" THEN r.tx ELSE NoTx

\* tx = Transaction.deserialize(buf); the object held before is dropped, and
\* its arrays with it
Deserialize ==
    /\ Reading
    /\ tx' = Held(deserialize(<<>>, buf))
    /\ heap' = deserialize(<<>>, buf).heap
    /\ last' = [op |-> "deserialize"] @@ Returned(deserialize(<<>>, buf))
    /\ UNCHANGED buf

\* tx.serialize() of the transaction deserialize returned
Serialize ==
    /\ Reading
    /\ tx # NoTx
    /\ last' = [op |-> "serialize", bytes |-> serialize(heap, tx)]
    /\ UNCHANGED <<tx, heap, buf>>

\* lines 275-276 of deserialize: the version, then var ins = readVarInt()
ReadInputCount ==
    /\ Reading
    /\ last' = [op |-> "readVarInt", from |-> readAsInt(buf, 0, 4).pos]
               @@ readVarInt(buf, readAsInt(buf, 0, 4).pos)
    /\ UNCHANGED <<tx, heap, buf>>

NextCodec ==
    \/ Deserialize
    \/ Serialize
    \/ ReadInputCount

SpecCodec == InitCodec /\ [][NextCodec]_vars

----------------------------------------------------------------------------
(* The claims *)

\* C1: Transaction.deserialize(T.serialize()) returns a transaction whose
\* version, locktime, inputs and outputs are those of T, field for field and
\* in the same order, for every version (0 included) and locktime.
C1_RoundTrip ==
    last.op = "roundTrip" =>
        /\ last.outcome = "returned"
        /\ last.result = TxView(heap, tx)

\* C2: for every byte array b that deserialize accepts,
\* Transaction.deserialize(b).serialize() is b, byte for byte (and so no two
\* byte arrays deserialize to the same transaction).
C2_Reserialize == last.op = "serialize" => last.bytes = buf

\* C3, as claimed: in every reachable state the cached hash is absent or is
\* getHash() of the current state.
C3_CachedHashFresh == tx.hash = NoHash \/ tx.hash = getHash(heap, tx)

\* the hash the constructor leaves in a Transaction made from doc
HashAtConstruction(doc) ==
    IF doc = NoDoc THEN NoHash
    ELSE IF doc.hash # NoHash THEN doc.hash
    ELSE getHash(heap, tx)

\* C3, amended: the constructor leaves no hash when there is no doc, the doc's
\* hash when the doc has one, and getHash() of the transaction just built
\* otherwise; no operation after that changes or clears the cached hash.
C3_HashSetAtConstructionOnly ==
    /\ tx.hash = HashAtConstruction(last.doc)
    /\ [][tx'.hash = tx.hash]_vars

\* C3, witness: a cached hash that an addInput has made stale
C3_StaleHashReached ==
    /\ last.op = "addInput"
    /\ tx.hash # NoHash
    /\ tx.hash # getHash(heap, tx)

\* the input count of a serialized transaction with fewer than 253 inputs:
\* the byte after the version
InputCountByte(bytes) == bytes[5]

\* C4: the preimage of hashTransactionForSignature holds only the input at
\* inIndex exactly when hashType & 0x80 is not 0, and all inputs otherwise; so
\* appending an input changes the digest of input i under hashType 0x01 and
\* leaves the digest under 0x81 unchanged.
C4_AnyoneCanPay ==
    [][/\ last'.op = "hashTransactionForSignature" =>
            InputCountByte(last'.digest.preimage) =
                IF BitAnd(last'.hashType, 128) # 0 THEN 1 ELSE Len(tx'.ins)
       /\ last'.op = "addInput" =>
            \A i \in 0..(Len(tx.ins) - 1) :
                /\ hashTransactionForSignature(heap', tx', LockingScript(7), i, 1)
                     # hashTransactionForSignature(heap, tx, LockingScript(7), i, 1)
                /\ hashTransactionForSignature(heap', tx', LockingScript(7), i, 129)
                     = hashTransactionForSignature(heap, tx, LockingScript(7), i, 129)
      ]_vars

\* C5: hashTransactionForSignature with hashType & 0x1f = SIGHASH_SINGLE
\* raises NotImplemented and returns no digest.
C5_SingleRaises ==
    (last.op = "hashTransactionForSignature"
        /\ BitAnd(last.hashType, 31) = SIGHASH_SINGLE)
    => last.outcome = "NotImplemented"

\* some read of deserialize passes the end of the buffer: a read threw, or the
\* read position is not a number or is beyond the end
Overruns(d, buffer) == d.thrown \/ d.pos = NaN \/ d.pos > Len(buffer)

\* C6: deserialize raises MalformedEncoding, and returns no Transaction, for
\* every buffer in which some read would pass the end of the buffer.
C6_MalformedRaises ==
    (last.op = "deserialize" /\ Overruns(deserializeObj(buf), buf))
    => last.outcome = "MalformedEncoding"

\* C7: clone() shares nothing mutable with the original: a write into any
\* field of the clone's inputs or outputs (its script, its outpoint, its
\* sequence bytes) leaves serialize() of the original unchanged.
C7_CloneIsolation ==
    [][last'.op = "cloneMutate" => serialize(heap', tx') = serialize(heap, tx)]_vars

\* C8: sign(index, key, hashType) changes ins[index].script and nothing else:
\* every other input, the outpoint and sequence of ins[index], the outputs,
\* version and locktime are as before, whatever the hashType.
C8_SignChangesOneScript ==
    [][last'.op = "sign" =>
          /\ heap' = heap
          /\ tx' = [tx EXCEPT !.ins[last'.index + 1].script =
                                  tx'.ins[last'.index + 1].script]
      ]_vars

\* C8, witness: an input signed with SIGHASH_NONE in a transaction with
\* another input and an output, all still there
C8_SignedWithNone ==
    /\ last.op = "sign"
    /\ BitAnd(last.type, 31) = SIGHASH_NONE
    /\ Len(tx.ins) >= 2
    /\ Len(tx.outs) >= 1
    /\ tx.ins[last.index + 1].script # <<>>

\* the bytes of n inputs of which one has a script of scriptLen bytes and the
\* others an empty script, each with a sequence of 4 bytes
InputsLength(n, scriptLen) == n * (32 + 4 + 1 + 4) + scriptLen

\* C9: for hashType & 0x1f = SIGHASH_NONE the preimage has output count 0 and
\* no output bytes, and every input takes 32 + 4 + varint + script + 4 bytes,
\* the sequence of every other input being 4 zero bytes.
C9_NonePreimage ==
    (last.op = "hashTransactionForSignature"
        /\ BitAnd(last.hashType, 31) = SIGHASH_NONE)
    => LET p == last.digest.preimage
       IN  /\ Len(p) = 4 + 1
                       + InputsLength(InputCountByte(p), Len(LockingScript(7)))
                       + 1 + 4 + 4
           /\ p[Len(p) - 8] = 0

\* the bytes a varint takes, by its first byte
VarIntWidth(first) ==
    IF first < 253 THEN 1 ELSE IF first = 253 THEN 3 ELSE IF first = 254 THEN 5 ELSE 9

\* C10: a varint whose first byte is below 0xFD is that byte (1 byte read);
\* 0xFD, 0xFE and 0xFF are followed by a little-endian value of 2, 4 and 8
\* bytes (3, 5 and 9 bytes read); the read position is then at the next field.
C10_VarIntWidths ==
    (last.op = "readVarInt"
        /\ Len(buf) > last.from
        /\ Len(buf) >= last.from + VarIntWidth(buf[last.from + 1]))
    => LET first == buf[last.from + 1]
           width == VarIntWidth(first)
       IN  /\ last.pos = last.from + width
           /\ last.val = IF first < 253 THEN first
                         ELSE bytesToNum(SubSeq(buf, last.from + 2, last.from + width))

====
